---- MODULE Spec2Model ----
(***************************************************************************)
(* Timing-based Morse decoder of serial-morse-listener:                    *)
(*   morse.py    MorseStreamProcessor (the decoder state machine)          *)
(*   utils.py    StreamingStats (running mean per category)                *)
(*   listener.py MorseListener.listen / shutdown (the sampling loop)       *)
(*                                                                         *)
(* Time is counted in integer milliseconds; durations in dit-units are     *)
(* exact rationals <<numerator, denominator>>, so that the threshold       *)
(* comparisons of the code are decided exactly at their boundaries.        *)
(* Optional[str] is a sequence of length 0 (None) or 1 (<<s>>).            *)
(***************************************************************************)
EXTENDS Integers, Sequences, FiniteSets, TLC

VARIABLES
    constructed,     \* TRUE iff MorseStreamProcessor.__init__ returned an instance
    wpm,             \* self.wpm
    timing_unit,     \* self.timing_unit (seconds, rational)
    symbol_buffer,   \* self.symbol_buffer
    first_event,     \* self.first_event (the "armed" latch)
    zero_count,      \* self.zero_count
    last_event,      \* self.last_event = Event(state, time)
    history_buffer,  \* self.history_buffer
    stats,           \* self.stats
    clock,           \* time.time() of the latest sample, in ms
    stop_event,      \* MorseListener.stop_event
    pc,              \* position of the listener thread
    keyboard,        \* the strings handed to write_keyboard_event, in order
    printed_report,  \* what shutdown printed (None before shutdown)
    trace,           \* log of the process_event calls made so far
    updates,         \* log of the StreamingStats.update calls made so far
    keyed_calls,     \* calls of process_event made before the session is observed
    deque,           \* a collections.deque(maxlen=...) and the values appended to it
    in_flight        \* the process_event call SIGINT cut short, if any

vars == <<constructed, wpm, timing_unit, symbol_buffer, first_event, zero_count,
          last_event, history_buffer, stats, clock, stop_event, pc, keyboard,
          printed_report, trace, updates, keyed_calls, deque, in_flight>>

----------------------------------------------------------------------------
(* Bounds of the exploration *)

\* calls of process_event explored from a freshly constructed decoder
MaxCalls == 5
\* calls of StreamingStats.update explored on the statistics alone
MaxUpdates == 3
\* calls of process_event explored from a decoder that already holds a keyed word
MaxKeyedCalls == 2
\* longest dit/dah word keyed into the buffer before the exploration starts
MaxKeyedLen == 5
\* largest small capacity of a deque explored on its own
MaxDequeLen == 3
\* appends explored on a deque on its own
MaxAppends == 6

\* time between two consecutive samples, in ms (sleep of listen plus lateness)
Deltas == {100, 150, 250, 600}
\* valid speeds: the test's wpm = 7, and wpm = 12 whose dit lasts exactly 100 ms
Wpms == {7, 12}
\* times between samples that reach 1000 dit-units at 12 wpm (100 s)
LateDeltas == {100, 600, 120000}
\* times between samples of the sessions ended by SIGINT
SigintDeltas == {100, 300, 600}
\* every speed the constructor is tried with, invalid ones included
AnyWpms == Wpms \cup {0, -7}

----------------------------------------------------------------------------
(* Exact rational arithmetic standing for the float arithmetic of the code *)

Abs(n) == IF n < 0 THEN -n ELSE n

RECURSIVE Gcd(_, _)
Gcd(a, b) == IF b = 0 THEN a ELSE Gcd(b, a % b)

\* the rational n/d (d # 0) in lowest terms with a positive denominator
Rat(n, d) ==
    LET g == Gcd(Abs(n), Abs(d))
        s == IF d < 0 THEN -1 ELSE 1
    IN  <<(s * n) \div g, (s * d) \div g>>

RatAdd(a, b) == Rat(a[1] * b[2] + b[1] * a[2], a[2] * b[2])
RatMul(a, b) == Rat(a[1] * b[1], a[2] * b[2])
RatDiv(a, b) == Rat(a[1] * b[2], a[2] * b[1])
RatLess(a, b) == a[1] * b[2] < b[1] * a[2]
RatGeq(a, b) == ~RatLess(a, b)

None == <<>>
Some(s) == <<s>>

----------------------------------------------------------------------------
(* morse.py: module constants *)

SYMBOL_DIT == "."
SYMBOL_DAH == "-"
SYMBOL_INTRA_CHAR_SPACE == ""
SYMBOL_INTER_CHAR_SPACE == ""
SYMBOL_INTER_WORD_SPACE == " "
DEFAULT_LONG_DURATION == 1000
KEYS_SYMBOLS == {"dit", "dah", "intrachar_space", "interchar_space", "interword_space"}
INTER_CHAR_SPACE_LB == <<5, 2>>
INTER_WORD_SPACE_LB == 6
DAH_LB == <<3, 2>>

\* deque(maxlen=int(1E6))
HistoryMaxLen == 1000000

\* Event(-1, -1.0): no level observed; -1.0 s is -1000 ms
IdleTimeMs == -1000
IdleEvent == [state |-> -1, time |-> IdleTimeMs]

----------------------------------------------------------------------------
(* utils.py: StreamingStats *)

StreamingStatsInit == [current_average |-> <<0, 1>>, num_observations |-> 0]

\* update whose weight is an integer division (previous // new = 0)
StatUpdate_IntegerWeight(st, new_observation) ==
    LET new_num_observations == st.num_observations + 1
        update_weight == <<st.num_observations \div new_num_observations, 1>>
    IN  [current_average |->
             RatAdd(RatMul(st.current_average, update_weight),
                    RatDiv(new_observation, <<new_num_observations, 1>>)),
         num_observations |-> new_num_observations]

StatUpdate(st, new_observation) ==
    LET previous_average == st.current_average
        previous_observations == st.num_observations
        new_num_observations == previous_observations + 1
        update_weight == Rat(previous_observations, new_num_observations)
    IN  [current_average |->
             RatAdd(RatMul(previous_average, update_weight),
                    RatDiv(new_observation, <<new_num_observations, 1>>)),
         num_observations |-> new_num_observations]

StatMean(st) == IF st.num_observations <= 0 THEN None ELSE Some(st.current_average)

----------------------------------------------------------------------------
(* morse.py: MorseStreamProcessor *)

character_table ==
    (SYMBOL_INTER_WORD_SPACE :> " ") @@
    (".-" :> "a") @@ ("-..." :> "b") @@ ("-.-." :> "c") @@ ("-.." :> "d") @@
    ("." :> "e") @@ ("..-." :> "f") @@ ("--." :> "g") @@ ("...." :> "h") @@
    (".." :> "i") @@ ("-.-" :> "k") @@ (".-.." :> "l") @@ ("--" :> "m") @@
    ("-." :> "n") @@ ("---" :> "o") @@ (".--." :> "p") @@ ("--.-" :> "q") @@
    (".-." :> "r") @@ ("..." :> "s") @@ ("-" :> "t") @@ ("..-" :> "u") @@
    ("...-" :> "v") @@ (".--" :> "w") @@ ("-..-" :> "x") @@ ("-.--" :> "y") @@
    ("--.." :> "z") @@
    (".----" :> "1") @@ ("..---" :> "2") @@ ("...--" :> "3") @@ ("....-" :> "4") @@
    ("....." :> "5") @@ ("-...." :> "6") @@ ("--..." :> "7") @@ ("---.." :> "8") @@
    ("----." :> "9") @@ ("-----" :> "0") @@
    ("...---..." :> "<SOS>")

\* (60.0/50.0)*(1.0/wpm); 1.0/0 raises ZeroDivisionError
CalculateDitDuration(w) ==
    IF w = 0 THEN [raised |-> TRUE, value |-> <<0, 1>>]
    ELSE [raised |-> FALSE, value |-> RatMul(Rat(60, 50), Rat(1, w))]

\* f'?<{to_interpret}>'
DebugPrint(to_interpret) == "?<" \o to_interpret \o ">"

\* interpret_buffer dropping what the table does not know
InterpretBuffer_DropUnknown(buf) ==
    [symbol_buffer |-> "",
     to_interpret |-> buf,
     interpreted |-> IF buf \in DOMAIN character_table
                     THEN Some(character_table[buf])
                     ELSE None]

\* interpret_buffer without the test for an empty buffer
InterpretBuffer_NoEmptyCheck(buf) ==
    [symbol_buffer |-> "",
     to_interpret |-> buf,
     interpreted |-> IF buf \in DOMAIN character_table
                     THEN Some(character_table[buf])
                     ELSE Some(DebugPrint(buf))]

\* interpret_buffer clearing the buffer only when the table knows the string
InterpretBuffer_KeepUnknown(buf) ==
    [symbol_buffer |-> IF buf \in DOMAIN character_table THEN "" ELSE buf,
     to_interpret |-> buf,
     interpreted |->
         IF buf = SYMBOL_INTER_CHAR_SPACE THEN None
         ELSE IF buf \in DOMAIN character_table
              THEN Some(character_table[buf])
              ELSE Some(DebugPrint(buf))]

\* returns the cleared buffer, the value returned and the string interpreted
InterpretBuffer(buf) ==
    LET to_interpret == buf
    IN  [symbol_buffer |-> "",
         to_interpret |-> to_interpret,
         interpreted |->
             IF to_interpret = SYMBOL_INTER_CHAR_SPACE THEN None
             ELSE IF to_interpret \in DOMAIN character_table
                  THEN Some(character_table[to_interpret])
                  ELSE Some(DebugPrint(to_interpret))]

\* the fields of a decoder built by __init__(wpm), given the dit duration
NewProcessor(w, unit) ==
    [wpm |-> w,
     timing_unit |-> unit,
     symbol_buffer |-> "",
     first_event |-> FALSE,
     zero_count |-> 0,
     last_event |-> IdleEvent,
     history_buffer |-> <<>>,
     stats |-> [k \in KEYS_SYMBOLS |-> StreamingStatsInit]]

\* a full deque that refuses the new entry
DequeAppend_DropNewest(d, x, maxlen) ==
    IF Len(d) < maxlen THEN Append(d, x) ELSE d

\* deque(maxlen=maxlen).append(x): the oldest entry is dropped once full
DequeAppend(d, x, maxlen) ==
    IF Len(d) < maxlen THEN Append(d, x) ELSE Append(Tail(d), x)

\* deque(maxlen=maxlen), with the log of the values appended to it
NewDeque(maxlen) == [maxlen |-> maxlen, items |-> <<>>, appended |-> <<>>]

\* (event_time - self.last_event.time) / self.timing_unit, or the idle sentinel
LastDuration(self, event_time) ==
    IF self.last_event.state = -1 THEN <<DEFAULT_LONG_DURATION, 1>>
    ELSE RatDiv(Rat(event_time - self.last_event.time, 1000), self.timing_unit)

\* the result of one dispatch branch: the new fields, the value returned,
\* the name of the branch and the string given to the code table, if any
Result(self, output_char, branch, flushed) ==
    [self |-> self, output_char |-> output_char, branch |-> branch, flushed |-> flushed]

\* SpaceEnded whose intra-character branch leaves output_char as first assigned
SpaceEnded_KeepEcho(self, last_duration, event_time) ==
    LET s1 == [self EXCEPT !.last_event = [state |-> 1, time |-> event_time]]
    IN  IF RatLess(last_duration, INTER_CHAR_SPACE_LB) THEN
            Result([s1 EXCEPT
                        !.stats["intrachar_space"] = StatUpdate(@, last_duration)],
                   Some("1"), "1_off_intrachar", None)
        ELSE IF RatLess(last_duration, <<INTER_WORD_SPACE_LB, 1>>) THEN
            LET r == InterpretBuffer(s1.symbol_buffer \o SYMBOL_INTER_CHAR_SPACE)
            IN  Result([s1 EXCEPT
                            !.symbol_buffer = r.symbol_buffer,
                            !.stats["interchar_space"] = StatUpdate(@, last_duration)],
                       r.interpreted, "1_off_interchar", Some(r.to_interpret))
        ELSE
            LET r == InterpretBuffer(s1.symbol_buffer \o SYMBOL_INTER_WORD_SPACE)
                measured == RatLess(last_duration, <<DEFAULT_LONG_DURATION, 1>>)
            IN  Result([s1 EXCEPT
                            !.symbol_buffer = r.symbol_buffer,
                            !.stats["interword_space"] =
                                IF measured THEN StatUpdate(@, last_duration) ELSE @],
                       r.interpreted, "1_off_interword", Some(r.to_interpret))

\* SpaceEnded flushing a word gap without appending the inter-word marker
SpaceEnded_NoMarker(self, last_duration, event_time) ==
    LET s1 == [self EXCEPT !.last_event = [state |-> 1, time |-> event_time]]
    IN  IF RatLess(last_duration, INTER_CHAR_SPACE_LB) THEN
            Result([s1 EXCEPT
                        !.symbol_buffer = @ \o SYMBOL_INTRA_CHAR_SPACE,
                        !.stats["intrachar_space"] = StatUpdate(@, last_duration)],
                   None, "1_off_intrachar", None)
        ELSE IF RatLess(last_duration, <<INTER_WORD_SPACE_LB, 1>>) THEN
            LET r == InterpretBuffer(s1.symbol_buffer \o SYMBOL_INTER_CHAR_SPACE)
            IN  Result([s1 EXCEPT
                            !.symbol_buffer = r.symbol_buffer,
                            !.stats["interchar_space"] = StatUpdate(@, last_duration)],
                       r.interpreted, "1_off_interchar", Some(r.to_interpret))
        ELSE
            LET r == InterpretBuffer(s1.symbol_buffer)
                measured == RatLess(last_duration, <<DEFAULT_LONG_DURATION, 1>>)
            IN  Result([s1 EXCEPT
                            !.symbol_buffer = r.symbol_buffer,
                            !.stats["interword_space"] =
                                IF measured THEN StatUpdate(@, last_duration) ELSE @],
                       r.interpreted, "1_off_interword", Some(r.to_interpret))

\* SpaceEnded recording the inter-word space whatever its length
SpaceEnded_AlwaysRecord(self, last_duration, event_time) ==
    LET s1 == [self EXCEPT !.last_event = [state |-> 1, time |-> event_time]]
    IN  IF RatLess(last_duration, INTER_CHAR_SPACE_LB) THEN
            Result([s1 EXCEPT
                        !.symbol_buffer = @ \o SYMBOL_INTRA_CHAR_SPACE,
                        !.stats["intrachar_space"] = StatUpdate(@, last_duration)],
                   None, "1_off_intrachar", None)
        ELSE IF RatLess(last_duration, <<INTER_WORD_SPACE_LB, 1>>) THEN
            LET r == InterpretBuffer(s1.symbol_buffer \o SYMBOL_INTER_CHAR_SPACE)
            IN  Result([s1 EXCEPT
                            !.symbol_buffer = r.symbol_buffer,
                            !.stats["interchar_space"] = StatUpdate(@, last_duration)],
                       r.interpreted, "1_off_interchar", Some(r.to_interpret))
        ELSE
            LET r == InterpretBuffer(s1.symbol_buffer \o SYMBOL_INTER_WORD_SPACE)
            IN  Result([s1 EXCEPT
                            !.symbol_buffer = r.symbol_buffer,
                            !.stats["interword_space"] = StatUpdate(@, last_duration)],
                       r.interpreted, "1_off_interword", Some(r.to_interpret))

\* SpaceEnded emptying the buffer at the end of an intra-character space
SpaceEnded_ClearOnIntra(self, last_duration, event_time) ==
    LET s1 == [self EXCEPT !.last_event = [state |-> 1, time |-> event_time]]
    IN  IF RatLess(last_duration, INTER_CHAR_SPACE_LB) THEN
            Result([s1 EXCEPT
                        !.symbol_buffer = SYMBOL_INTRA_CHAR_SPACE,
                        !.stats["intrachar_space"] = StatUpdate(@, last_duration)],
                   None, "1_off_intrachar", None)
        ELSE IF RatLess(last_duration, <<INTER_WORD_SPACE_LB, 1>>) THEN
            LET r == InterpretBuffer(s1.symbol_buffer \o SYMBOL_INTER_CHAR_SPACE)
            IN  Result([s1 EXCEPT
                            !.symbol_buffer = r.symbol_buffer,
                            !.stats["interchar_space"] = StatUpdate(@, last_duration)],
                       r.interpreted, "1_off_interchar", Some(r.to_interpret))
        ELSE
            LET r == InterpretBuffer(s1.symbol_buffer \o SYMBOL_INTER_WORD_SPACE)
                measured == RatLess(last_duration, <<DEFAULT_LONG_DURATION, 1>>)
            IN  Result([s1 EXCEPT
                            !.symbol_buffer = r.symbol_buffer,
                            !.stats["interword_space"] =
                                IF measured THEN StatUpdate(@, last_duration) ELSE @],
                       r.interpreted, "1_off_interword", Some(r.to_interpret))

\* state == 1 and last_event.state == 0: some kind of space just ended
SpaceEnded(self, last_duration, event_time) ==
    LET s1 == [self EXCEPT !.last_event = [state |-> 1, time |-> event_time]]
    IN  IF RatLess(last_duration, INTER_CHAR_SPACE_LB) THEN
            Result([s1 EXCEPT
                        !.symbol_buffer = @ \o SYMBOL_INTRA_CHAR_SPACE,
                        !.stats["intrachar_space"] = StatUpdate(@, last_duration)],
                   None, "1_off_intrachar", None)
        ELSE IF RatLess(last_duration, <<INTER_WORD_SPACE_LB, 1>>) THEN
            LET r == InterpretBuffer(s1.symbol_buffer \o SYMBOL_INTER_CHAR_SPACE)
            IN  Result([s1 EXCEPT
                            !.symbol_buffer = r.symbol_buffer,
                            !.stats["interchar_space"] = StatUpdate(@, last_duration)],
                       r.interpreted, "1_off_interchar", Some(r.to_interpret))
        ELSE
            LET r == InterpretBuffer(s1.symbol_buffer \o SYMBOL_INTER_WORD_SPACE)
                measured == RatLess(last_duration, <<DEFAULT_LONG_DURATION, 1>>)
            IN  Result([s1 EXCEPT
                            !.symbol_buffer = r.symbol_buffer,
                            !.stats["interword_space"] =
                                IF measured THEN StatUpdate(@, last_duration) ELSE @],
                       r.interpreted, "1_off_interword", Some(r.to_interpret))

\* SpaceContinues without the mid-gap flush: a space in the window just waits
SpaceContinues_NoMidGapFlush(self, last_duration) ==
    IF RatGeq(last_duration, <<INTER_WORD_SPACE_LB, 1>>) THEN
        LET r == InterpretBuffer(self.symbol_buffer \o SYMBOL_INTER_WORD_SPACE)
        IN  Result([self EXCEPT !.symbol_buffer = r.symbol_buffer,
                                !.last_event = IdleEvent],
                   r.interpreted, "0_off_interword", Some(r.to_interpret))
    ELSE
        Result(self, None, "0_off_wait", None)

\* SpaceContinues flushing a word gap without appending the inter-word marker
SpaceContinues_NoMarker(self, last_duration) ==
    IF RatGeq(last_duration, <<INTER_WORD_SPACE_LB, 1>>) THEN
        LET r == InterpretBuffer(self.symbol_buffer)
        IN  Result([self EXCEPT !.symbol_buffer = r.symbol_buffer,
                                !.last_event = IdleEvent],
                   r.interpreted, "0_off_interword", Some(r.to_interpret))
    ELSE IF RatGeq(last_duration, INTER_CHAR_SPACE_LB) THEN
        LET r == InterpretBuffer(self.symbol_buffer \o SYMBOL_INTER_CHAR_SPACE)
        IN  Result([self EXCEPT !.symbol_buffer = r.symbol_buffer],
                   r.interpreted, "0_off_interchar", Some(r.to_interpret))
    ELSE
        Result(self, None, "0_off_wait", None)

\* SpaceContinues that forgets to reset last_event after a word gap
SpaceContinues_NoIdleReset(self, last_duration) ==
    IF RatGeq(last_duration, <<INTER_WORD_SPACE_LB, 1>>) THEN
        LET r == InterpretBuffer(self.symbol_buffer \o SYMBOL_INTER_WORD_SPACE)
        IN  Result([self EXCEPT !.symbol_buffer = r.symbol_buffer],
                   r.interpreted, "0_off_interword", Some(r.to_interpret))
    ELSE IF RatGeq(last_duration, INTER_CHAR_SPACE_LB) THEN
        LET r == InterpretBuffer(self.symbol_buffer \o SYMBOL_INTER_CHAR_SPACE)
        IN  Result([self EXCEPT !.symbol_buffer = r.symbol_buffer],
                   r.interpreted, "0_off_interchar", Some(r.to_interpret))
    ELSE
        Result(self, None, "0_off_wait", None)

\* SpaceContinues that ends the gap at the flush inside the window
SpaceContinues_IdleInWindow(self, last_duration) ==
    IF RatGeq(last_duration, <<INTER_WORD_SPACE_LB, 1>>) THEN
        LET r == InterpretBuffer(self.symbol_buffer \o SYMBOL_INTER_WORD_SPACE)
        IN  Result([self EXCEPT !.symbol_buffer = r.symbol_buffer,
                                !.last_event = IdleEvent],
                   r.interpreted, "0_off_interword", Some(r.to_interpret))
    ELSE IF RatGeq(last_duration, INTER_CHAR_SPACE_LB) THEN
        LET r == InterpretBuffer(self.symbol_buffer \o SYMBOL_INTER_CHAR_SPACE)
        IN  Result([self EXCEPT !.symbol_buffer = r.symbol_buffer,
                                !.last_event = IdleEvent],
                   r.interpreted, "0_off_interchar", Some(r.to_interpret))
    ELSE
        Result(self, None, "0_off_wait", None)

\* SpaceContinues resetting the state after a word gap but keeping the timestamp
SpaceContinues_KeepTimestamp(self, last_duration) ==
    IF RatGeq(last_duration, <<INTER_WORD_SPACE_LB, 1>>) THEN
        LET r == InterpretBuffer(self.symbol_buffer \o SYMBOL_INTER_WORD_SPACE)
        IN  Result([self EXCEPT !.symbol_buffer = r.symbol_buffer,
                                !.last_event = [state |-> -1,
                                                time |-> self.last_event.time]],
                   r.interpreted, "0_off_interword", Some(r.to_interpret))
    ELSE IF RatGeq(last_duration, INTER_CHAR_SPACE_LB) THEN
        LET r == InterpretBuffer(self.symbol_buffer \o SYMBOL_INTER_CHAR_SPACE)
        IN  Result([self EXCEPT !.symbol_buffer = r.symbol_buffer],
                   r.interpreted, "0_off_interchar", Some(r.to_interpret))
    ELSE
        Result(self, None, "0_off_wait", None)

\* state == 0 and last_event.state == 0: the space goes on
SpaceContinues(self, last_duration) ==
    IF RatGeq(last_duration, <<INTER_WORD_SPACE_LB, 1>>) THEN
        LET r == InterpretBuffer(self.symbol_buffer \o SYMBOL_INTER_WORD_SPACE)
        IN  Result([self EXCEPT !.symbol_buffer = r.symbol_buffer,
                                !.last_event = IdleEvent],
                   r.interpreted, "0_off_interword", Some(r.to_interpret))
    ELSE IF RatGeq(last_duration, INTER_CHAR_SPACE_LB) THEN
        LET r == InterpretBuffer(self.symbol_buffer \o SYMBOL_INTER_CHAR_SPACE)
        IN  Result([self EXCEPT !.symbol_buffer = r.symbol_buffer],
                   r.interpreted, "0_off_interchar", Some(r.to_interpret))
    ELSE
        Result(self, None, "0_off_wait", None)

\* PulseEnded with a strict comparison at the dah bound
PulseEnded_StrictDah(self, last_duration, event_time) ==
    LET is_dah == RatLess(DAH_LB, last_duration)
        s1 == IF is_dah
              THEN [self EXCEPT !.symbol_buffer = @ \o SYMBOL_DAH,
                                !.stats["dah"] = StatUpdate(@, last_duration)]
              ELSE [self EXCEPT !.symbol_buffer = @ \o SYMBOL_DIT,
                                !.stats["dit"] = StatUpdate(@, last_duration)]
    IN  Result([s1 EXCEPT !.last_event = [state |-> 0, time |-> event_time]],
               None, IF is_dah THEN "0_on_dah" ELSE "0_on_dit", None)

\* PulseEnded putting the new symbol in front of the buffer
PulseEnded_Prepend(self, last_duration, event_time) ==
    LET s1 == IF RatGeq(last_duration, DAH_LB)
              THEN [self EXCEPT !.symbol_buffer = SYMBOL_DAH \o @,
                                !.stats["dah"] = StatUpdate(@, last_duration)]
              ELSE [self EXCEPT !.symbol_buffer = SYMBOL_DIT \o @,
                                !.stats["dit"] = StatUpdate(@, last_duration)]
        branch == IF RatGeq(last_duration, DAH_LB) THEN "0_on_dah" ELSE "0_on_dit"
    IN  Result([s1 EXCEPT !.last_event = [state |-> 0, time |-> event_time]],
               None, branch, None)

\* PulseEnded without the assignment of last_event
PulseEnded_KeepLastEvent(self, last_duration, event_time) ==
    LET s1 == IF RatGeq(last_duration, DAH_LB)
              THEN [self EXCEPT !.symbol_buffer = @ \o SYMBOL_DAH,
                                !.stats["dah"] = StatUpdate(@, last_duration)]
              ELSE [self EXCEPT !.symbol_buffer = @ \o SYMBOL_DIT,
                                !.stats["dit"] = StatUpdate(@, last_duration)]
        branch == IF RatGeq(last_duration, DAH_LB) THEN "0_on_dah" ELSE "0_on_dit"
    IN  Result(s1, None, branch, None)

\* state == 0 and last_event.state == 1: a pulse just ended
PulseEnded(self, last_duration, event_time) ==
    LET s1 == IF RatGeq(last_duration, DAH_LB)
              THEN [self EXCEPT !.symbol_buffer = @ \o SYMBOL_DAH,
                                !.stats["dah"] = StatUpdate(@, last_duration)]
              ELSE [self EXCEPT !.symbol_buffer = @ \o SYMBOL_DIT,
                                !.stats["dit"] = StatUpdate(@, last_duration)]
        branch == IF RatGeq(last_duration, DAH_LB) THEN "0_on_dah" ELSE "0_on_dit"
    IN  Result([s1 EXCEPT !.last_event = [state |-> 0, time |-> event_time]],
               None, branch, None)

\* Arm recording the sample only once the latch is set
Arm_RecordWhenArmed(self, state) ==
    [self EXCEPT !.history_buffer = IF self.first_event \/ state = 1
                                    THEN DequeAppend(@, state, HistoryMaxLen)
                                    ELSE @,
                 !.first_event = (@ \/ (state = 1))]

\* the head of process_event: the sample is recorded and the latch is set
Arm(self, state) ==
    [self EXCEPT !.history_buffer = DequeAppend(@, state, HistoryMaxLen),
                 !.first_event = (@ \/ (state = 1))]

\* process_event restarting the pulse timer at every sample of 1 of a pulse
ProcessEvent_HoldRestarts(self, state, event_time) ==
    LET s0 == Arm(self, state)
        echo == Some(ToString(state))
    IN  IF s0.first_event THEN
            LET last_duration == LastDuration(s0, event_time)
                last == s0.last_event.state
            IN  IF state = 1 THEN
                    IF last = 0 THEN SpaceEnded(s0, last_duration, event_time)
                    ELSE IF last = 1 THEN
                        Result([s0 EXCEPT !.last_event =
                                              [state |-> 1, time |-> event_time]],
                               None, "1_on", None)
                    ELSE IF last = -1 THEN
                        Result([s0 EXCEPT !.last_event =
                                              [state |-> 1, time |-> event_time]],
                               None, "1_idle", None)
                    ELSE Result(s0, echo, "echo", None)
                ELSE IF state = 0 THEN
                    IF last = 0 THEN SpaceContinues(s0, last_duration)
                    ELSE IF last = 1 THEN PulseEnded(s0, last_duration, event_time)
                    ELSE IF last = -1 THEN Result(s0, None, "0_idle", None)
                    ELSE Result(s0, None, "AssertionError", None)
                ELSE Result(s0, echo, "echo", None)
        ELSE Result(s0, None, "unarmed", None)

\* process_event(state) called at time event_time (ms)
ProcessEvent(self, state, event_time) ==
    LET s0 == Arm(self, state)
        echo == Some(ToString(state))
    IN  IF s0.first_event THEN
            LET last_duration == LastDuration(s0, event_time)
                last == s0.last_event.state
            IN  IF state = 1 THEN
                    IF last = 0 THEN SpaceEnded(s0, last_duration, event_time)
                    ELSE IF last = 1 THEN Result(s0, None, "1_on", None)
                    ELSE IF last = -1 THEN
                        Result([s0 EXCEPT !.last_event =
                                              [state |-> 1, time |-> event_time]],
                               None, "1_idle", None)
                    ELSE Result(s0, echo, "echo", None)
                ELSE IF state = 0 THEN
                    IF last = 0 THEN SpaceContinues(s0, last_duration)
                    ELSE IF last = 1 THEN PulseEnded(s0, last_duration, event_time)
                    ELSE IF last = -1 THEN Result(s0, None, "0_idle", None)
                    ELSE Result(s0, None, "AssertionError", None)
                ELSE Result(s0, echo, "echo", None)
        ELSE Result(s0, None, "unarmed", None)

\* the assignments to the fields of the decoder that process_event(state),
\* called at event_time, makes one after the other, interpret_buffer and
\* StreamingStats.update included
Assignments(self, state, event_time) ==
    LET s0 == Arm(self, state)
        last_duration == LastDuration(s0, event_time)
        last == self.last_event.state
        buf == self.symbol_buffer
        Set(field, value) == [field |-> field, value |-> value]
        Update(k) ==
            LET new == StatUpdate(self.stats[k], last_duration)
            IN  <<Set("stats", [self.stats EXCEPT
                                    ![k].current_average = new.current_average]),
                  Set("stats", [self.stats EXCEPT ![k] = new])>>
        Interpret(marker) == <<Set("symbol_buffer", buf \o marker),
                               Set("symbol_buffer", "")>>
        on_now == Set("last_event", [state |-> 1, time |-> event_time])
        head == <<Set("history_buffer", s0.history_buffer),
                  Set("first_event", s0.first_event)>>
    IN  IF ~s0.first_event THEN head
        ELSE IF state = 1 /\ last = 0 THEN
            IF RatLess(last_duration, INTER_CHAR_SPACE_LB) THEN
                head \o <<on_now, Set("symbol_buffer", buf \o SYMBOL_INTRA_CHAR_SPACE)>>
                     \o Update("intrachar_space")
            ELSE IF RatLess(last_duration, <<INTER_WORD_SPACE_LB, 1>>) THEN
                head \o <<on_now, Set("symbol_buffer", buf \o SYMBOL_INTER_CHAR_SPACE)>>
                     \o Update("interchar_space") \o <<Set("symbol_buffer", "")>>
            ELSE
                head \o <<on_now, Set("symbol_buffer", buf \o SYMBOL_INTER_WORD_SPACE)>>
                     \o (IF RatLess(last_duration, <<DEFAULT_LONG_DURATION, 1>>)
                         THEN Update("interword_space") ELSE <<>>)
                     \o <<Set("symbol_buffer", "")>>
        ELSE IF state = 1 /\ last = -1 THEN head \o <<on_now>>
        ELSE IF state = 0 /\ last = 0 THEN
            IF RatGeq(last_duration, <<INTER_WORD_SPACE_LB, 1>>) THEN
                head \o Interpret(SYMBOL_INTER_WORD_SPACE)
                     \o <<Set("last_event", IdleEvent)>>
            ELSE IF RatGeq(last_duration, INTER_CHAR_SPACE_LB) THEN
                head \o Interpret(SYMBOL_INTER_CHAR_SPACE)
            ELSE head
        ELSE IF state = 0 /\ last = 1 THEN
            LET is_dah == RatGeq(last_duration, DAH_LB)
            IN  head \o <<Set("symbol_buffer",
                              buf \o (IF is_dah THEN SYMBOL_DAH ELSE SYMBOL_DIT))>>
                     \o Update(IF is_dah THEN "dah" ELSE "dit")
                     \o <<Set("last_event", [state |-> 0, time |-> event_time])>>
        ELSE head

\* the decoder after the assignments of `done`, in order
RECURSIVE ApplyAll(_, _)
ApplyAll(self, done) ==
    IF done = <<>> THEN self
    ELSE ApplyAll([self EXCEPT ![Head(done).field] = Head(done).value], Tail(done))

----------------------------------------------------------------------------
(* The decoder as one record, and ideal keying of a word into a fresh decoder *)

Self ==
    [wpm |-> wpm, timing_unit |-> timing_unit, symbol_buffer |-> symbol_buffer,
     first_event |-> first_event, zero_count |-> zero_count,
     last_event |-> last_event, history_buffer |-> history_buffer, stats |-> stats]

\* the log entry of the call process_event(state) made at event_time on the
\* decoder `before`, with result r
LogEntry(before, state, event_time, r) ==
    [state |-> state,
     time |-> event_time,
     output_char |-> r.output_char,
     branch |-> r.branch,
     flushed |-> r.flushed,
     armed_before |-> before.first_event,
     last_event_before |-> before.last_event,
     symbol_buffer_before |-> before.symbol_buffer,
     stats_before |-> before.stats]

\* KEYS_SYMBOLS in the order of the source
KeyOrder == <<"dit", "dah", "intrachar_space", "interchar_space", "interword_space">>

\* the update calls of one process_event call: every statistic whose count
\* moved was given last_duration, the only value the code ever passes
UpdatesOf(before, state, event_time, r) ==
    LET moved == SelectSeq(KeyOrder,
                           LAMBDA k : r.self.stats[k].num_observations
                                          # before.stats[k].num_observations)
    IN  [i \in 1..Len(moved) |->
            [key |-> moved[i], observation |-> LastDuration(before, event_time)]]

\* nominal dit length in whole ms at speed w
UnitMs(w) == 1200 \div w

\* word keyed with nominal timing (dit 1 unit, dah 3 units, gaps of 1 unit) by
\* calling process_event at each edge; ends at the trailing edge of the last pulse
RECURSIVE KeyWord(_, _, _)
KeyWord(self, t, word) ==
    IF word = <<>> THEN [self |-> self, clock |-> t, trace |-> <<>>, updates |-> <<>>]
    ELSE LET u == UnitMs(self.wpm)
             t_on == t + u
             t_off == t_on + (IF Head(word) = SYMBOL_DAH THEN 3 * u ELSE u)
             r_on == ProcessEvent(self, 1, t_on)
             on == r_on.self
             r_off == ProcessEvent(on, 0, t_off)
             off == r_off.self
             rest == KeyWord(off, t_off, Tail(word))
         IN  [self |-> rest.self,
              clock |-> rest.clock,
              trace |-> <<LogEntry(self, 1, t_on, r_on),
                          LogEntry(on, 0, t_off, r_off)>> \o rest.trace,
              updates |-> UpdatesOf(self, 1, t_on, r_on)
                              \o UpdatesOf(on, 0, t_off, r_off) \o rest.updates]

RECURSIVE WordsUpTo(_)
WordsUpTo(n) ==
    IF n = 0 THEN {<<>>}
    ELSE LET shorter == WordsUpTo(n - 1)
         IN  shorter \cup {Append(w, c) : w \in shorter, c \in {SYMBOL_DIT, SYMBOL_DAH}}

SosWord == <<".", ".", ".", "-", "-", "-", ".", ".", ".">>
KeyedWords == (WordsUpTo(MaxKeyedLen) \ {<<>>}) \cup {SosWord}

----------------------------------------------------------------------------
(* Initial states *)

\* MorseListener.__init__ building MorseStreamProcessor(wpm=w); the listener
\* thread then enters listen(), or the exception leaves do_listen
ConstructedWith(w, keyed_word, a_deque) ==
    LET unit == CalculateDitDuration(w)
        keyed == KeyWord(NewProcessor(w, unit.value), 0, keyed_word)
        self == keyed.self
    IN  /\ constructed = ~unit.raised
        /\ wpm = self.wpm
        /\ timing_unit = self.timing_unit
        /\ symbol_buffer = self.symbol_buffer
        /\ first_event = self.first_event
        /\ zero_count = self.zero_count
        /\ last_event = self.last_event
        /\ history_buffer = self.history_buffer
        /\ stats = self.stats
        /\ clock = keyed.clock
        /\ stop_event = FALSE
        /\ pc = IF unit.raised THEN "raised" ELSE "listen"
        /\ keyboard = <<>>
        /\ printed_report = None
        /\ trace = keyed.trace
        /\ updates = keyed.updates
        /\ keyed_calls = Len(keyed.trace)
        /\ deque = a_deque
        /\ in_flight = None

Constructed(w, keyed_word) == ConstructedWith(w, keyed_word, NewDeque(HistoryMaxLen))

\* a session with a valid speed
Init == \E w \in Wpms : Constructed(w, <<>>)

\* a session with any speed, valid or not
InitAnyWpm == \E w \in AnyWpms : Constructed(w, <<>>)

\* a fresh decoder next to an empty deque of a small capacity, or of the
\* capacity of the history
InitDeque ==
    \E w \in Wpms, maxlen \in (1..MaxDequeLen) \cup {HistoryMaxLen} :
        ConstructedWith(w, <<>>, NewDeque(maxlen))

\* a session observed from the trailing edge of the last pulse of a keyed word
InitKeyed == \E w \in Wpms, word \in KeyedWords : Constructed(w, word)

\* a session observed from construction or from the end of a keyed word
InitAll == \E w \in Wpms, word \in KeyedWords \cup {<<>>} : Constructed(w, word)

----------------------------------------------------------------------------
(* listener.py: MorseListener.listen, do_listen, shutdown *)

Fresh == Len(trace) = Len(history_buffer)
CallLimit == IF keyed_calls = 0 THEN MaxCalls ELSE keyed_calls + MaxKeyedCalls

\* one iteration of the while loop of listen(): the stop flag is clear, the line
\* is read as `state` at time clock + d, process_event runs and its output, if
\* any, goes to write_keyboard_event
ListenStep(delays) ==
    /\ constructed
    /\ pc = "listen"
    /\ ~stop_event
    /\ Len(trace) < CallLimit
    /\ \E state \in {0, 1}, d \in delays :
        LET event_time == clock + d
            r == ProcessEvent(Self, state, event_time)
        IN  /\ clock' = event_time
            /\ symbol_buffer' = r.self.symbol_buffer
            /\ first_event' = r.self.first_event
            /\ zero_count' = r.self.zero_count
            /\ last_event' = r.self.last_event
            /\ history_buffer' = r.self.history_buffer
            /\ stats' = r.self.stats
            /\ keyboard' = IF r.output_char # None
                           THEN Append(keyboard, r.output_char[1])
                           ELSE keyboard
            /\ trace' = Append(trace, LogEntry(Self, state, event_time, r))
            /\ updates' = updates \o UpdatesOf(Self, state, event_time, r)
    /\ UNCHANGED <<constructed, wpm, timing_unit, stop_event, pc, printed_report,
                   keyed_calls, deque, in_flight>>

ListenIteration == ListenStep(Deltas)

\* an iteration whose sample may come minutes after the previous one: nothing
\* in the loop bounds the time between two calls of process_event
ListenLate == ListenStep(LateDeltas)

\* another thread sets the stop event
SetStop ==
    /\ constructed
    /\ pc = "listen"
    /\ ~stop_event
    /\ stop_event' = TRUE
    /\ UNCHANGED <<constructed, wpm, timing_unit, symbol_buffer, first_event,
                   zero_count, last_event, history_buffer, stats, clock, pc,
                   keyboard, printed_report, trace, updates, keyed_calls, deque,
                   in_flight>>

\* the while condition of listen() sees the stop event and the loop ends
ListenExit ==
    /\ pc = "listen"
    /\ stop_event
    /\ pc' = "exited"
    /\ UNCHANGED <<constructed, wpm, timing_unit, symbol_buffer, first_event,
                   zero_count, last_event, history_buffer, stats, clock,
                   stop_event, keyboard, printed_report, trace, updates,
                   keyed_calls, deque, in_flight>>

\* timing_report: per category, the mean (None without observations) and the count
TimingReport(st) ==
    [k \in KEYS_SYMBOLS |-> [mean |-> StatMean(st[k]),
                             observations |-> st[k].num_observations]]

\* __exit__ of the listener runs shutdown(), which prints the timing report
Shutdown ==
    /\ pc = "exited"
    /\ pc' = "shutdown"
    /\ printed_report' = Some(TimingReport(stats))
    /\ UNCHANGED <<constructed, wpm, timing_unit, symbol_buffer, first_event,
                   zero_count, last_event, history_buffer, stats, clock,
                   stop_event, keyboard, trace, updates, keyed_calls, deque,
                   in_flight>>

Next == ListenIteration \/ SetStop \/ ListenExit \/ Shutdown
NextLate == ListenLate \/ SetStop \/ ListenExit \/ Shutdown

\* an iteration of a session that SIGINT may end
ListenBeforeSigint == ListenStep(SigintDeltas)

\* SIGINT: the handler runs in the main thread, which is inside listen(); it
\* sets the stop event and calls sys.exit(0), and SystemExit leaves listen()
\* from the statement the thread had reached: before process_event was
\* entered (cut = 0), after cut assignments of the call, or after the call
\* returned and before its output went to write_keyboard_event
SigintHandler ==
    /\ constructed
    /\ pc = "listen"
    /\ ~stop_event
    /\ Len(trace) < CallLimit
    /\ \E state \in {0, 1}, d \in SigintDeltas :
        LET event_time == clock + d
            todo == Assignments(Self, state, event_time)
        IN  \E cut \in 0..Len(todo) :
            LET after == ApplyAll(Self, SubSeq(todo, 1, cut))
            IN  /\ clock' = event_time
                /\ symbol_buffer' = after.symbol_buffer
                /\ first_event' = after.first_event
                /\ zero_count' = after.zero_count
                /\ last_event' = after.last_event
                /\ history_buffer' = after.history_buffer
                /\ stats' = after.stats
                /\ in_flight' = IF cut = 0 THEN None
                                ELSE Some([before |-> Self, state |-> state,
                                           time |-> event_time, cut |-> cut,
                                           keyboard_before |-> keyboard])
    /\ stop_event' = TRUE
    /\ pc' = "exited"
    /\ UNCHANGED <<constructed, wpm, timing_unit, keyboard, printed_report, trace,
                   updates, keyed_calls, deque>>

NextSigint ==
    ListenBeforeSigint \/ SetStop \/ ListenExit \/ Shutdown \/ SigintHandler

\* StreamingStats.update called on one of the statistics with the duration of
\* d ms in dit-units, outside any process_event call
StatUpdateCall ==
    /\ constructed
    /\ Len(updates) < MaxUpdates
    /\ \E k \in KEYS_SYMBOLS, d \in Deltas :
        LET new_observation == RatDiv(Rat(d, 1000), timing_unit)
        IN  /\ stats' = [stats EXCEPT ![k] = StatUpdate(@, new_observation)]
            /\ updates' = Append(updates,
                                 [key |-> k, observation |-> new_observation])
    /\ UNCHANGED <<constructed, wpm, timing_unit, symbol_buffer, first_event,
                   zero_count, last_event, history_buffer, clock, stop_event, pc,
                   keyboard, printed_report, trace, keyed_calls, deque, in_flight>>

\* deque.append called on the deque alone
DequeAppendCall ==
    /\ Len(deque.appended) < MaxAppends
    /\ \E x \in {0, 1} :
        deque' = [deque EXCEPT !.items = DequeAppend(@, x, deque.maxlen),
                               !.appended = Append(@, x)]
    /\ UNCHANGED <<constructed, wpm, timing_unit, symbol_buffer, first_event,
                   zero_count, last_event, history_buffer, stats, clock,
                   stop_event, pc, keyboard, printed_report, trace, updates,
                   keyed_calls, in_flight>>

Spec == Init /\ [][Next]_vars
SpecAnyWpm == InitAnyWpm /\ [][Next]_vars
SpecKeyed == InitKeyed /\ [][Next]_vars
\* sessions observed from construction and from every keyed word
SpecAll == InitAll /\ [][Next]_vars
\* sessions that another thread or SIGINT can end
SpecSigint == Init /\ [][NextSigint]_vars
\* sessions in which the line can stay at one level for minutes
SpecLate == Init /\ [][NextLate]_vars
\* a deque under arbitrary appends
SpecDeque == InitDeque /\ [][DequeAppendCall]_vars
\* the statistics of a fresh decoder under arbitrary update calls
SpecRunningStat == Init /\ [][StatUpdateCall]_vars

----------------------------------------------------------------------------
(* Vocabulary of the properties *)

N == Len(trace)
Last == trace[N]

\* a duration of ms milliseconds in dit-units at the session's speed
Units(ms) == Rat(ms * wpm, 1200)
UnitsLess(ms, bound) == RatLess(Units(ms), bound)
UnitsGeq(ms, bound) == ~RatLess(Units(ms), bound)
InWindow(ms) == UnitsGeq(ms, <<5, 2>>) /\ UnitsLess(ms, <<6, 1>>)

\* the non-absent values returned by the calls of tr, in order
Outputs(tr) ==
    LET given == SelectSeq(tr, LAMBDA e : e.output_char # None)
    IN  [i \in 1..Len(given) |-> given[i].output_char[1]]

\* number of samples equal to v at the head of tr, from index `from` on
RECURSIVE RunLength(_, _, _)
RunLength(tr, from, v) ==
    IF from > Len(tr) \/ tr[from].state # v THEN 0
    ELSE 1 + RunLength(tr, from + 1, v)

\* the string of a word of symbols
RECURSIVE Str(_)
Str(word) == IF word = <<>> THEN "" ELSE Head(word) \o Str(Tail(word))

\* the i-th call saw the line low while the decoder was in a space that
\* began at time since
InGap(i) == trace[i].state = 0 /\ trace[i].last_event_before.state = 0
Elapsed(i) == trace[i].time - trace[i].last_event_before.time

----------------------------------------------------------------------------
(* C1: single-symbol round trip *)

\* the calls so far are k >= 1 samples of 1, then samples of 0 all less than
\* 6 dit-units after the first 0, then one sample of 1 that arrives g dit-units
\* after the first 0 with 2.5 <= g < 6
SingleSymbolShape ==
    LET k == RunLength(trace, 1, 1)
    IN  /\ Fresh
        /\ k >= 1
        /\ N >= k + 2
        /\ \A i \in (k + 1)..(N - 1) :
               /\ trace[i].state = 0
               /\ UnitsLess(trace[i].time - trace[k + 1].time, <<6, 1>>)
        /\ trace[N].state = 1
        /\ InWindow(trace[N].time - trace[k + 1].time)

\* time from the first sample of 1 to the first sample of 0
HoldMs == trace[RunLength(trace, 1, 1) + 1].time - trace[1].time

\* C1: from a fresh decoder, a sample sequence of the single-symbol shape
\* returns exactly one non-absent value over all its calls: "e" when the hold
\* is below 1.5 dit-units and "t" when it is 1.5 dit-units or more.
C1_SingleSymbolRoundTrip ==
    SingleSymbolShape =>
        Outputs(trace) = IF UnitsLess(HoldMs, <<3, 2>>) THEN <<"e">> ELSE <<"t">>

\* a hold of exactly 1.5 dit-units, a sample of 0 inside the window that
\* already returned the letter, and the closing sample of 1
C1_Witness ==
    /\ SingleSymbolShape
    /\ Units(HoldMs) = <<3, 2>>
    /\ \E i \in 1..(N - 1) : trace[i].output_char = Some("t")
    /\ Last.output_char = None

----------------------------------------------------------------------------
(* C2: dit then silence, then the session stops *)

\* leading samples of 0, then samples of 1, then samples of 0 of which one
\* arrives 2.5 dit-units or more after the first 0 and all less than 6
DitThenSilenceShape ==
    LET a == RunLength(trace, 1, 0)
        k == RunLength(trace, a + 1, 1)
        z == a + k + 1
    IN  /\ Fresh
        /\ k >= 1
        /\ N >= z
        /\ \A i \in z..N :
               /\ trace[i].state = 0
               /\ UnitsLess(trace[i].time - trace[z].time, <<6, 1>>)
        /\ \E i \in z..N : UnitsGeq(trace[i].time - trace[z].time, <<5, 2>>)

FirstOne == RunLength(trace, 1, 0) + 1
LastOne == RunLength(trace, 1, 0) + RunLength(trace, FirstOne, 1)
Stopped == pc \in {"exited", "shutdown"}

\* C2 as stated: the samples of 1 span less than 1.5 dit-units (from the first
\* sample of 1 to the last), and the keyboard receives exactly "e".
C2_AsStated ==
    (/\ Stopped
     /\ DitThenSilenceShape
     /\ UnitsLess(trace[LastOne].time - trace[FirstOne].time, <<3, 2>>))
        => keyboard = <<"e">>

\* C2 amended: when the first sample of 0 after the pulse arrives less than
\* 1.5 dit-units after the first sample of 1, the keyboard receives exactly "e".
C2_DitThenSilence ==
    (/\ Stopped
     /\ DitThenSilenceShape
     /\ UnitsLess(trace[LastOne + 1].time - trace[FirstOne].time, <<3, 2>>))
        => keyboard = <<"e">>

\* the scenario of test_listen at wpm = 7: silence, a short pulse, silence
\* that reaches the window, then the stop
C2_Witness ==
    /\ Stopped
    /\ DitThenSilenceShape
    /\ wpm = 7
    /\ FirstOne > 1
    /\ UnitsLess(trace[LastOne + 1].time - trace[FirstOne].time, <<3, 2>>)
    /\ keyboard = <<"e">>

----------------------------------------------------------------------------
(* C3: word boundary seen while the line is still low *)

\* the latest call got a sample of 0 with last_state Off, 6 dit-units or more
\* after the stored timestamp
WordGapCall == N >= 1 /\ InGap(N) /\ UnitsGeq(Elapsed(N), <<6, 1>>)

\* the value a flush of the string s must return
Flushed(s) ==
    IF s = "" THEN None
    ELSE IF s \in DOMAIN character_table THEN Some(character_table[s])
    ELSE Some("?<" \o s \o ">")

\* C3: a sample of 0 arriving with last_state Off and elapsed >= 6 dit-units
\* flushes the buffer followed by one space and returns the result of that
\* flush, leaves the buffer empty and resets last_event to Idle without a
\* timestamp.
C3_WordBoundary ==
    WordGapCall =>
        /\ Last.flushed = Some(Last.symbol_buffer_before \o " ")
        /\ Last.output_char = Flushed(Last.symbol_buffer_before \o " ")
        /\ symbol_buffer = ""
        /\ last_event = [state |-> -1, time |-> IdleTimeMs]

\* a letter still in the buffer when the word gap is seen
C3_Witness ==
    /\ WordGapCall
    /\ Last.symbol_buffer_before = "."
    /\ Last.flushed = Some(". ")
    /\ last_event.state = -1

----------------------------------------------------------------------------
(* C4: Idle is quiescent *)

\* the latest call found an armed decoder in Idle
IdleCall == N >= 1 /\ Last.armed_before /\ Last.last_event_before.state = -1

\* the outputs that contain a space: the space itself and the placeholders of
\* strings ending in the inter-word marker
SpaceOutputs ==
    {" "} \cup {"?<" \o Str(w) \o " >" : w \in WordsUpTo(MaxCalls) \cup KeyedWords}
HasSpace(i) == trace[i].output_char # None /\ trace[i].output_char[1] \in SpaceOutputs

\* C4: in Idle a sample of 0 returns absent and changes nothing but the
\* history; the first sample of 1 returns absent, records no statistic, keeps
\* the buffer and sets last_event to On at the current time; and two outputs
\* containing a space are always separated by a pulse.
C4_IdleQuiescent ==
    /\ (IdleCall /\ Last.state = 0) =>
           /\ Last.output_char = None
           /\ symbol_buffer = Last.symbol_buffer_before
           /\ stats = Last.stats_before
           /\ last_event = Last.last_event_before
           /\ first_event
    /\ (IdleCall /\ Last.state = 1) =>
           /\ Last.output_char = None
           /\ symbol_buffer = Last.symbol_buffer_before
           /\ stats = Last.stats_before
           /\ last_event = [state |-> 1, time |-> Last.time]
    /\ \A i, j \in 1..N :
           (i < j /\ HasSpace(i) /\ HasSpace(j)) =>
               \E k \in (i + 1)..j : trace[k].state = 0
                                     /\ trace[k].last_event_before.state = 1

\* a space was returned, the silence went on in Idle, and a pulse then began
C4_Witness ==
    /\ N >= 3
    /\ IdleCall /\ Last.state = 1
    /\ trace[N - 1].state = 0 /\ trace[N - 1].last_event_before.state = -1
    /\ \E i \in 1..(N - 2) : HasSpace(i)
    /\ last_event = [state |-> 1, time |-> clock]

----------------------------------------------------------------------------
(* C5: the unarmed decoder *)

\* the decoder was unarmed at the first call and every sample so far was 0
AllZero == N >= 1 /\ ~trace[1].armed_before /\ \A i \in 1..N : trace[i].state = 0

\* C5: while a fresh decoder has only received samples of 0, every call
\* returned absent, the five statistics have no observation, last_event is
\* Idle, the buffer is empty and the history holds one entry per call.
C5_Unarmed ==
    AllZero =>
        /\ \A i \in 1..N : trace[i].output_char = None
        /\ \A k \in KEYS_SYMBOLS : stats[k].num_observations = 0
        /\ last_event = [state |-> -1, time |-> IdleTimeMs]
        /\ symbol_buffer = ""
        /\ ~first_event
        /\ history_buffer = [i \in 1..N |-> 0]

\* several samples of 0, spread over more than a word gap
C5_Witness ==
    /\ AllZero
    /\ N >= 3
    /\ UnitsGeq(clock, <<6, 1>>)
    /\ Len(history_buffer) = N

----------------------------------------------------------------------------
(* C6: flush of a string the code table does not know *)

TableCharacters == {character_table[k] : k \in DOMAIN character_table}

\* the latest call flushed a non-empty string without a code-table entry
UnknownFlush ==
    /\ N >= 1
    /\ Last.flushed # None
    /\ Last.flushed[1] # ""
    /\ Last.flushed[1] \notin DOMAIN character_table

\* C6: a flush of a non-empty string without a code-table entry returns the
\* placeholder built around that exact string, which is neither absent nor a
\* character of the table, and leaves the buffer empty.
C6_UnknownCode ==
    UnknownFlush =>
        /\ Last.output_char = Some("?<" \o Last.flushed[1] \o ">")
        /\ Last.output_char[1] \notin TableCharacters
        /\ Last.flushed[1] \in {Last.symbol_buffer_before,
                                Last.symbol_buffer_before \o " "}
        /\ symbol_buffer = ""

\* four symbols that spell no character, flushed inside the window
C6_Witness ==
    /\ UnknownFlush
    /\ Last.symbol_buffer_before = "..--"
    /\ Last.output_char = Some("?<..-->")

----------------------------------------------------------------------------
(* C7: coverage of the code table *)

Letters == {"a", "b", "c", "d", "e", "f", "g", "h", "i", "j", "k", "l", "m",
            "n", "o", "p", "q", "r", "s", "t", "u", "v", "w", "x", "y", "z"}
Digits == {"0", "1", "2", "3", "4", "5", "6", "7", "8", "9"}

\* what a decoder of this session's speed returns when word is keyed into it
\* from scratch and its buffer is then flushed
KeyedFlush(word) ==
    InterpretBuffer(KeyWord(NewProcessor(wpm, timing_unit), 0, word)
                        .self.symbol_buffer).interpreted

\* C7: every letter and every digit is what the flush of some dot/dash string
\* returns; "...---..." returns "<SOS>" and a lone space returns " ".
C7_TableCoverage ==
    /\ \A c \in Letters \cup Digits :
           \E w \in WordsUpTo(MaxKeyedLen) : KeyedFlush(w) = Some(c)
    /\ KeyedFlush(SosWord) = Some("<SOS>")
    /\ InterpretBuffer(" ").interpreted = Some(" ")

----------------------------------------------------------------------------
(* C8: construction with an invalid speed *)

\* C8: a speed of zero or less never yields a decoder instance.
C8_InvalidWpmRejected == wpm <= 0 => ~constructed

----------------------------------------------------------------------------
(* C9: flush of an empty buffer *)

\* calls i < j are samples of 0 of one gap, both inside the [2.5, 6) window
SameGapInWindow(i, j) ==
    /\ i < j
    /\ InGap(i) /\ InGap(j)
    /\ trace[i].last_event_before = trace[j].last_event_before
    /\ InWindow(Elapsed(i)) /\ InWindow(Elapsed(j))

\* C9: a flush of the empty buffer returns absent; in particular every sample
\* of 0 of a gap that follows an earlier one inside the window returns absent.
C9_FlushEmptiness ==
    /\ (N >= 1 /\ Last.flushed = Some("")) => Last.output_char = None
    /\ \A i, j \in 1..N : SameGapInWindow(i, j) => trace[j].output_char = None

\* the first sample inside the window returned the character, the next one,
\* still inside the window, flushed the empty buffer
C9_Witness ==
    /\ N >= 2
    /\ SameGapInWindow(N - 1, N)
    /\ trace[N - 1].output_char # None
    /\ Last.flushed = Some("")
    /\ Last.output_char = None

----------------------------------------------------------------------------
(* C10: the values process_event returns *)

\* C10: the value returned by a call is absent or the result of flushing the
\* buffer found at entry, possibly followed by a space: a code-table character
\* or a placeholder; it is non-absent only when last_state was Off at entry,
\* and the echo of the sample assigned at the start of the call is not returned.
C10_OutputDomain ==
    N >= 1 =>
        /\ \/ Last.output_char = None
           \/ /\ Last.flushed # None
              /\ Last.flushed[1] \in {Last.symbol_buffer_before,
                                      Last.symbol_buffer_before \o " "}
              /\ Last.output_char = Flushed(Last.flushed[1])
        /\ Last.output_char # None => Last.last_event_before.state = 0
        /\ Last.branch \notin {"echo", "AssertionError"}

\* a sample of 1 ending a word gap that returned a placeholder, after a call
\* that returned nothing
C10_Witness ==
    /\ N >= 2
    /\ Last.last_event_before.state = 0
    /\ Last.state = 1
    /\ Last.output_char = Some("?<..-- >")
    /\ trace[N - 1].output_char = None

----------------------------------------------------------------------------
(* C11: the running mean *)

\* the observations given to statistic k so far, in order
ObservationsOf(k) ==
    LET mine == SelectSeq(updates, LAMBDA u : u.key = k)
    IN  [i \in 1..Len(mine) |-> mine[i].observation]

RECURSIVE RatSum(_)
RatSum(obs) == IF obs = <<>> THEN <<0, 1>> ELSE RatAdd(Head(obs), RatSum(Tail(obs)))

ArithmeticMean(obs) == RatDiv(RatSum(obs), <<Len(obs), 1>>)

\* C11: for each statistic, the count is the number of updates it received,
\* the mean it reports is the arithmetic mean of all its observations, and
\* the mean is absent exactly when it received no update.
C11_RunningMean ==
    \A k \in KEYS_SYMBOLS :
        LET obs == ObservationsOf(k)
        IN  /\ stats[k].num_observations = Len(obs)
            /\ (StatMean(stats[k]) = None) <=> (obs = <<>>)
            /\ obs # <<>> => StatMean(stats[k]) = Some(ArithmeticMean(obs))

\* one statistic that received three observations, not all equal
C11_Witness ==
    \E k \in KEYS_SYMBOLS :
        LET obs == ObservationsOf(k)
        IN  /\ Len(obs) = 3
            /\ obs[1] # obs[2]
            /\ obs[2] # obs[3]
            /\ stats[k].current_average = ArithmeticMean(obs)

----------------------------------------------------------------------------
(* C12: accumulation of the symbols of one character *)

\* the i-th call found the decoder in a space (last_state Off)
AfterPulse(i) == trace[i].last_event_before.state = 0
\* the i-th call is the trailing edge of a pulse
PulseEnd(i) == trace[i].state = 0 /\ trace[i].last_event_before.state = 1

\* call s starts a pulse with an empty buffer: it wakes the decoder from Idle
\* or ends a space of 2.5 dit-units or more
GroupStart(s) ==
    /\ trace[s].state = 1
    /\ \/ trace[s].last_event_before.state = -1
       \/ AfterPulse(s) /\ UnitsGeq(Elapsed(s), <<5, 2>>)

\* from call s to the latest call: pulses separated by spaces that stay below
\* 2.5 dit-units at every sample, and the latest call is the first to see the
\* space after the last pulse at 2.5 dit-units or more, and below 6
PulseGroup(s) ==
    /\ s < N
    /\ GroupStart(s)
    /\ \A i \in (s + 1)..(N - 1) : AfterPulse(i) => UnitsLess(Elapsed(i), <<5, 2>>)
    /\ AfterPulse(N)
    /\ InWindow(Elapsed(N))

\* the symbols of the pulses that end in calls from..to, by their real length
RECURSIVE PulseSymbols(_, _)
PulseSymbols(from, to) ==
    IF from > to THEN ""
    ELSE (IF PulseEnd(from)
          THEN (IF UnitsGeq(Elapsed(from), <<3, 2>>) THEN "-" ELSE ".")
          ELSE "") \o PulseSymbols(from + 1, to)

\* C12: over a group of pulses with short spaces nothing is returned until the
\* space after the last pulse is first seen inside the window; that call
\* returns the flush of the dit/dah symbols of the pulses in pulse order.
C12_MultiSymbol ==
    \A s \in 1..N :
        PulseGroup(s) =>
            /\ \A i \in (s + 1)..(N - 1) : trace[i].output_char = None
            /\ Last.output_char = Flushed(PulseSymbols(s, N))
            /\ Last.output_char # None

\* four pulses, dah dit dah dit, returned as "c"
C12_Witness ==
    /\ N >= 9
    /\ PulseGroup(N - 8)
    /\ PulseSymbols(N - 8, N) = "-.-."
    /\ Last.output_char = Some("c")

----------------------------------------------------------------------------
(* C13: a space reclassified from inter-character to inter-word *)

\* the latest call got a sample of 0 with last_state Off inside the window
MidGapCall == N >= 1 /\ InGap(N) /\ InWindow(Elapsed(N))

\* the calls that sampled 0 in the gap the latest call belongs to
GapCalls ==
    SelectSeq(trace, LAMBDA e : /\ e.state = 0
                                /\ e.last_event_before = Last.last_event_before)

\* the latest call sees its gap reach 6 dit-units after an earlier sample of
\* the same gap fell inside the window
Reclassified ==
    /\ WordGapCall
    /\ \E i \in 1..(N - 1) :
           /\ InGap(i)
           /\ trace[i].last_event_before = Last.last_event_before
           /\ InWindow(Elapsed(i))

\* C13: a sample of 0 with last_state Off and 2.5 <= elapsed < 6 flushes the
\* buffer without a marker and leaves last_event as it was; when later samples
\* of 0 of the same gap reach 6 dit-units, the gap has returned the decoded
\* character and then one space, and last_state is Idle.
C13_MidGapReclassification ==
    /\ MidGapCall =>
           /\ last_event = Last.last_event_before
           /\ Last.flushed = Some(Last.symbol_buffer_before)
           /\ Last.output_char = Flushed(Last.symbol_buffer_before)
           /\ symbol_buffer = ""
    /\ Reclassified =>
           /\ Outputs(GapCalls) =
                  <<Flushed(GapCalls[1].symbol_buffer_before)[1], " ">>
           /\ last_event.state = -1

\* the gap after "-.-" returned "k" inside the window and then a space
C13_Witness ==
    /\ Reclassified
    /\ GapCalls[1].symbol_buffer_before = "-.-"
    /\ Outputs(GapCalls) = <<"k", " ">>
    /\ trace[N - 1].last_event_before = Last.last_event_before
    /\ last_event = IdleEvent

----------------------------------------------------------------------------
(* C14: samples of 1 during a pulse *)

\* the latest call got a sample of 1 with last_state On
HoldCall == N >= 1 /\ Last.state = 1 /\ Last.last_event_before.state = 1

\* the call that got the first sample of 1 of the pulse that ends in call n
PulseStart(n) ==
    CHOOSE i \in 1..(n - 1) :
        /\ trace[i].state = 1
        /\ trace[i].last_event_before.state # 1
        /\ \A j \in (i + 1)..(n - 1) : trace[j].state = 1

\* the symbol of a pulse that lasted ms milliseconds
SymbolOf(ms) == IF UnitsGeq(ms, <<3, 2>>) THEN "-" ELSE "."

\* C14: a sample of 1 with last_state On returns absent and leaves last_event,
\* the buffer and the statistics unchanged; the symbol appended at the trailing
\* edge is a function of the time from the first sample of 1 of the pulse to
\* its first sample of 0 alone.
C14_PulseHold ==
    /\ HoldCall =>
           /\ Last.output_char = None
           /\ last_event = Last.last_event_before
           /\ symbol_buffer = Last.symbol_buffer_before
           /\ stats = Last.stats_before
    /\ (N >= 1 /\ PulseEnd(N)) =>
           symbol_buffer = Last.symbol_buffer_before
                               \o SymbolOf(Last.time - trace[PulseStart(N)].time)

\* a pulse sampled three times, each sample less than 1.5 dit-units after the
\* one before, that lasted 1.5 dit-units or more: a dah
C14_Witness ==
    /\ N >= 4
    /\ PulseEnd(N)
    /\ PulseStart(N) = N - 3
    /\ \A i \in (N - 2)..N : UnitsLess(trace[i].time - trace[i - 1].time, <<3, 2>>)
    /\ symbol_buffer = Last.symbol_buffer_before \o "-"

----------------------------------------------------------------------------
(* C15: a word gap first seen at the leading edge of the next pulse *)

\* the latest call got a sample of 1 with last_state Off, 6 dit-units or more
\* after the stored timestamp, with symbols still in the buffer
EdgeWordGapCall ==
    /\ N >= 1
    /\ Last.state = 1
    /\ AfterPulse(N)
    /\ UnitsGeq(Elapsed(N), <<6, 1>>)
    /\ Last.symbol_buffer_before # ""

\* C15: a sample of 1 arriving with last_state Off, elapsed >= 6 dit-units and
\* symbols left in the buffer flushes the symbols followed by the space marker
\* and returns the placeholder around that string, not the character of the
\* symbols; the buffer is then empty and last_event is On at the current time.
C15_EdgeTriggeredWordFlush ==
    EdgeWordGapCall =>
        /\ Last.flushed = Some(Last.symbol_buffer_before \o " ")
        /\ Last.output_char = Some("?<" \o Last.symbol_buffer_before \o " >")
        /\ Last.output_char # Flushed(Last.symbol_buffer_before)
        /\ Last.output_char[1] \notin TableCharacters
        /\ symbol_buffer = ""
        /\ last_event = [state |-> 1, time |-> Last.time]

\* the symbols of "r" left in the buffer come back as a placeholder
C15_Witness ==
    /\ EdgeWordGapCall
    /\ Last.symbol_buffer_before = ".-."
    /\ Last.output_char = Some("?<.-. >")
    /\ last_event.state = 1

----------------------------------------------------------------------------
(* C16: what the statistics record *)

\* the latest call recorded an observation in some statistic
Recorded == N >= 1 /\ stats # Last.stats_before

\* the statistics the latest call added an observation to
RecordedKeys ==
    {k \in KEYS_SYMBOLS :
        stats[k].num_observations = Last.stats_before[k].num_observations + 1}

\* the observation the latest call logged is its elapsed time in dit-units
LoggedElapsed ==
    /\ updates # <<>>
    /\ ~RatLess(updates[Len(updates)].observation, Units(Elapsed(N)))
    /\ ~RatLess(Units(Elapsed(N)), updates[Len(updates)].observation)

\* every trailing edge records its pulse once, as a dit below 1.5 dit-units
\* and as a dah from 1.5 dit-units on; nothing is recorded from Idle
EdgesRecorded ==
    /\ (N >= 1 /\ PulseEnd(N)) =>
           /\ RecordedKeys = {IF UnitsLess(Elapsed(N), <<3, 2>>) THEN "dit" ELSE "dah"}
           /\ \A k \in KEYS_SYMBOLS \ RecordedKeys : stats[k] = Last.stats_before[k]
           /\ updates[Len(updates)].key \in RecordedKeys
           /\ LoggedElapsed
    /\ (N >= 1 /\ Last.last_event_before.state = -1) => stats = Last.stats_before

\* C16 as stated: every update is made in a call that found last_state Off or
\* On and measured less than 1000 dit-units, and every trailing edge records
\* one observation, a dit or a dah.
C16_AsStated ==
    /\ Recorded =>
           /\ Last.last_event_before.state \in {0, 1}
           /\ UnitsLess(Elapsed(N), <<1000, 1>>)
    /\ EdgesRecorded

\* C16, amended: every update is made in a call that found last_state Off or
\* On; an update made from last_state Off measured less than 1000 dit-units;
\* every trailing edge records one observation whatever its length, a dit or a
\* dah; nothing is recorded from Idle.
C16_RealMeasurements ==
    /\ Recorded =>
           /\ Last.last_event_before.state \in {0, 1}
           /\ AfterPulse(N) => UnitsLess(Elapsed(N), <<1000, 1>>)
    /\ EdgesRecorded

\* a pulse of 1000 dit-units or more recorded as a dah
C16_Witness ==
    /\ N >= 1
    /\ PulseEnd(N)
    /\ UnitsGeq(Elapsed(N), <<1000, 1>>)
    /\ RecordedKeys = {"dah"}
    /\ LoggedElapsed

----------------------------------------------------------------------------
(* C17: what the symbol buffer holds between calls *)

\* the strings of dits and dahs a session can accumulate: a keyed word and the
\* pulses of the calls after it
DitDahStrings ==
    {Str(w) : w \in WordsUpTo(MaxKeyedLen + MaxKeyedCalls)}
        \cup {Str(SosWord \o w) : w \in WordsUpTo(MaxKeyedCalls)}

\* the latest call appended the inter-word marker before its flush
MarkerFlushed ==
    /\ N >= 1
    /\ Last.flushed = Some(Last.symbol_buffer_before \o SYMBOL_INTER_WORD_SPACE)

\* C17: after every call the buffer is a string of dits and dahs; a call that
\* flushes leaves it empty, so the inter-word marker appended before a flush
\* is gone when the call returns; a call that does not flush keeps the buffer
\* or adds one dit or dah to it.
C17_BufferAlphabet ==
    /\ symbol_buffer \in DitDahStrings
    /\ (N >= 1 /\ Last.flushed # None) => symbol_buffer = ""
    /\ (N >= 1 /\ Last.flushed = None) =>
           symbol_buffer \in {Last.symbol_buffer_before,
                              Last.symbol_buffer_before \o SYMBOL_DIT,
                              Last.symbol_buffer_before \o SYMBOL_DAH}

\* the marker went out with symbols the table does not know, and the pulse
\* that followed put a single dah in the buffer
C17_Witness ==
    /\ N >= 2
    /\ trace[N - 1].flushed = Some(".- ")
    /\ PulseEnd(N)
    /\ symbol_buffer = "-"

----------------------------------------------------------------------------
(* C18: the sample history *)

\* the last k elements of seq
LastOf(seq, k) == SubSeq(seq, Len(seq) - k + 1, Len(seq))
Min(a, b) == IF a < b THEN a ELSE b

\* the samples given to process_event so far, in arrival order
Samples == [i \in 1..N |-> trace[i].state]

----------------------------------------------------------------------------
(* C19: the values of last_event *)

\* C19: after any calls with samples in {0, 1}, last_event.state is Idle (-1),
\* Off (0) or On (1), the stored timestamp is the -1.0 sentinel exactly when
\* the state is Idle, and no call reached the assertion or fell through the
\* dispatch.
C19_ClosedStateSet ==
    /\ last_event.state \in {-1, 0, 1}
    /\ (last_event.time = IdleTimeMs) <=> (last_event.state = -1)
    /\ \A i \in 1..N : trace[i].branch \notin {"AssertionError", "echo"}

\* On, then Off, then back to Idle at a word gap
C19_Witness ==
    /\ N >= 3
    /\ trace[N - 1].last_event_before.state = 1
    /\ Last.last_event_before.state = 0
    /\ Last.last_event_before.time # IdleTimeMs
    /\ last_event = IdleEvent

----------------------------------------------------------------------------
(* C20: when last_event is assigned *)

\* last_event as the i-th call left it
LastEventAfter(i) == IF i = N THEN last_event ELSE trace[i + 1].last_event_before

\* the i-th call ran the dispatch: the decoder was armed, or the sample armed it
Dispatched(i) == trace[i].armed_before \/ trace[i].state = 1

\* the dispatch branches, as pairs of sample and last_state at entry, in which
\* some call so far left last_event as it was
UnchangedDispatch ==
    {<<trace[i].state, trace[i].last_event_before.state>> :
        i \in {j \in 1..N : Dispatched(j)
                            /\ LastEventAfter(j) = trace[j].last_event_before}}

\* the value the i-th call must leave in last_event
ExpectedLastEvent(i) ==
    LET state == trace[i].state
        last == trace[i].last_event_before.state
    IN  IF ~Dispatched(i) THEN trace[i].last_event_before
        ELSE IF state = 1 /\ last \in {0, -1} THEN [state |-> 1, time |-> trace[i].time]
        ELSE IF state = 0 /\ last = 1 THEN [state |-> 0, time |-> trace[i].time]
        ELSE IF state = 0 /\ last = 0 /\ UnitsGeq(Elapsed(i), <<6, 1>>) THEN IdleEvent
        ELSE trace[i].last_event_before

\* C20 as stated: the calls that leave last_event unchanged all belong to one
\* dispatch branch.
C20_AsStated == Cardinality(UnchangedDispatch) <= 1

\* C20, amended: a call assigns last_event once, to On at the current time
\* for a sample of 1 from Off or Idle, to Off at the current time for a sample
\* of 0 from On, to Idle for a sample of 0 from Off at 6 dit-units or more; in
\* every other case (1 from On, 0 from Off below 6 dit-units, 0 from Idle, an
\* unarmed decoder) last_event is left unchanged.
C20_UpdateDiscipline ==
    \A i \in 1..N : LastEventAfter(i) = ExpectedLastEvent(i)

\* calls of two dispatch branches left last_event unchanged, a sample of 1
\* during a pulse and a sample of 0 inside the window, and the trailing edge
\* between them assigned it
C20_Witness ==
    /\ {<<1, 1>>, <<0, 0>>} \subseteq UnchangedDispatch
    /\ \E i \in 1..N : /\ InGap(i) /\ InWindow(Elapsed(i))
                       /\ LastEventAfter(i) = trace[i].last_event_before
    /\ \E i \in 1..N : /\ PulseEnd(i)
                       /\ LastEventAfter(i) = [state |-> 0, time |-> trace[i].time]

----------------------------------------------------------------------------
(* C21: teardown *)

\* the call that was in flight when the stop signal came ran to its end: the
\* decoder is as the whole call leaves it and its output reached the keyboard
InFlightCompleted ==
    in_flight # None =>
        LET call == in_flight[1]
            r == ProcessEvent(call.before, call.state, call.time)
        IN  /\ Self = r.self
            /\ keyboard = call.keyboard_before
                              \o (IF r.output_char = None THEN <<>>
                                  ELSE <<r.output_char[1]>>)

\* C21: a stop signal raised while the loop runs interrupts no process_event
\* call half-way: the call in flight completes, the loop then ends, and only
\* after that does shutdown read the statistics.
C21_CooperativeTeardown ==
    /\ InFlightCompleted
    /\ printed_report # None =>
           /\ pc = "shutdown"
           /\ stop_event
           /\ printed_report = Some(TimingReport(stats))

----------------------------------------------------------------------------
(* C22: conservation of the symbols *)

\* the dits and dahs of the string the i-th call flushed, if it flushed: the
\* string without the inter-word marker
FlushedSymbols(i) ==
    IF trace[i].flushed = None THEN ""
    ELSE IF trace[i].flushed[1] =
                trace[i].symbol_buffer_before \o SYMBOL_INTER_WORD_SPACE
         THEN trace[i].symbol_buffer_before
         ELSE trace[i].flushed[1]

\* the symbols flushed by the calls from..N, in order
RECURSIVE AllFlushed(_)
AllFlushed(from) ==
    IF from > N THEN "" ELSE FlushedSymbols(from) \o AllFlushed(from + 1)

TrailingEdges == {i \in 1..N : PulseEnd(i)}

\* C22: the symbols of the pulses so far, in order, are the symbols of the
\* strings flushed so far, in order, followed by the buffer; and the dit and
\* dah statistics together hold one observation for each trailing edge.
C22_SymbolConservation ==
    /\ PulseSymbols(1, N) = AllFlushed(1) \o symbol_buffer
    /\ stats["dit"].num_observations + stats["dah"].num_observations
           = Cardinality(TrailingEdges)

\* a dit flushed with the marker as a placeholder, then a dah in the buffer
C22_Witness ==
    /\ \E i \in 1..N : /\ trace[i].flushed = Some(". ")
                       /\ trace[i].output_char = Some("?<. >")
    /\ symbol_buffer = "-"
    /\ PulseSymbols(1, N) = ".-"
    /\ Cardinality(TrailingEdges) = 2

====
